---- MODULE Spec2Model ----
(***************************************************************************)
(* Verification model of kafka-ui's server side:                           *)
(*   - KafkaService (src/src/lib/kafka-service.ts): the singleton that     *)
(*     owns the admin handle, with connect / disconnect and the             *)
(*     aggregation and command operations;                                 *)
(*   - the route handlers of /kafka/cluster, /kafka/brokers and            *)
(*     /kafka/topics.                                                      *)
(*                                                                         *)
(* Node runs the service single-threaded: an async method runs without     *)
(* interruption up to its next await on I/O.  One action of the model is   *)
(* one such run: from the settling of the awaited promise to the next      *)
(* await (or to the method's return).  An await on a nested async method   *)
(* of the service resumes in the microtask checkpoint in which the nested  *)
(* method returns, before any I/O completion is delivered, so the nested   *)
(* method's last run and the caller's continuation are one action.         *)
(***************************************************************************)
EXTENDS Integers, Sequences, FiniteSets, TLC

\* ------------------------------------------------------------------------
\* Bounds of the model
\* ------------------------------------------------------------------------
\* connect() calls made in one behaviour; each creates one admin handle
MaxHandles == 2
\* disconnect() calls of callers that may be in flight at the same time
MaxDisconnects == 1
\* connect() calls made while requests are served (at most MaxHandles)
MaxConnects == 1

\* null, for a field that holds a handle and for one that holds an object
Null == 0
NullObj == << >>

HandleIds == 1..MaxHandles

\* bootstrapServers strings given to connect(), as their comma-separated
\* parts; a part is the text between two commas with its surrounding blanks
BootstrapInputs ==
  { << [lead |-> 0, text |-> "k1:9092", trail |-> 0],
       [lead |-> 1, text |-> "k2:9092", trail |-> 0] >> }

\* ------------------------------------------------------------------------
\* State
\* ------------------------------------------------------------------------
VARIABLES
  svc,        \* the KafkaService fields: kafka, admin, isConnected, connectionConfig
  handles,    \* every admin handle created by kafka.admin(): the calls made on it
  connectPc,  \* per connect() call (named by the handle it creates): where it stands
  discPending,\* disconnect() calls of callers that await their admin.disconnect()
  last,       \* the service call that completed in the last step, and how
  req,        \* the request in progress or answered last
  provider,   \* the browser's ClusterProvider: its state, localStorage, its calls
  page,       \* the browser's TopicsPage: its hooks' state and the create modal
  hook,       \* one resource hook (overview, topics or brokers) and its fetches
  mgmt        \* useClusterManagement: the saved-clusters list, in state and persisted

vars == << svc, handles, connectPc, discPending, last, req, provider, page, hook, mgmt >>

\* the browser side, which no step of the server changes
client == << provider, page, hook, mgmt >>

\* ------------------------------------------------------------------------
\* KafkaService: pure parts
\* ------------------------------------------------------------------------
\* String.prototype.trim on one part of the server list
Trim(part) == part.text

\* bootstrapServers.split(',').map((server) => server.trim())
SplitServers(input) == [i \in 1..Len(input) |-> Trim(input[i])]

\* Array.prototype.join(',')
RECURSIVE JoinServers(_)
JoinServers(brokers) ==
  IF Len(brokers) = 0 THEN ""
  ELSE IF Len(brokers) = 1 THEN brokers[1]
  ELSE brokers[1] \o "," \o JoinServers(Tail(brokers))

\* the KafkaConfig built by connect()
ConnectConfig(bootstrapServers, clientId) ==
  [clientId |-> clientId, brokers |-> SplitServers(bootstrapServers)]

\* the fields of a freshly constructed KafkaService
NewService ==
  [kafka |-> Null, admin |-> Null, isConnected |-> FALSE, connectionConfig |-> NullObj]

isConnectionActive_IgnoresKafka(s) == s.isConnected

isConnectionActive(s) == s.isConnected /\ s.kafka # Null

getConnectionInfo(s) ==
  IF s.connectionConfig = NullObj THEN NullObj
  ELSE [brokers |-> JoinServers(s.connectionConfig.brokers),
        clientId |-> s.connectionConfig.clientId]

\* connectWithConfig up to its await: the fields are overwritten, the admin
\* handle held before is neither read nor disconnected
connectWithConfig_Begin(s, config, h) ==
  [s EXCEPT !.connectionConfig = config, !.kafka = h, !.admin = h]

\* connectWithConfig after admin.connect() resolved
connectWithConfig_Connected(s) == [s EXCEPT !.isConnected = TRUE]

\* disconnect(), try block after admin.disconnect() resolved
disconnect_Try(s) ==
  [svc |-> [s EXCEPT !.admin = Null, !.kafka = Null, !.isConnected = FALSE,
                     !.connectionConfig = NullObj],
   outcome |-> "resolved"]

\* disconnect(), try block when this.admin is null: nothing is awaited
disconnect_NoAdmin(s) ==
  [svc |-> [s EXCEPT !.kafka = Null, !.isConnected = FALSE,
                     !.connectionConfig = NullObj],
   outcome |-> "resolved"]

disconnect_Catch_LogOnly(s) == [svc |-> s, outcome |-> "resolved"]

\* disconnect(), catch block: admin.disconnect() rejected
disconnect_Catch(s) ==
  [svc |-> [s EXCEPT !.kafka = Null, !.admin = Null, !.isConnected = FALSE,
                     !.connectionConfig = NullObj],
   outcome |-> "resolved"]

\* disconnect() once the awaited admin.disconnect() has settled
disconnect_Settled(s, closeOk) ==
  IF closeOk THEN disconnect_Try(s) ELSE disconnect_Catch(s)

\* ------------------------------------------------------------------------
\* Topic names and their validation
\* ------------------------------------------------------------------------
\* A string is the sequence of its runs: run [ch |-> c, n |-> k] is k times
\* the character c.
Run(c, k) == [ch |-> c, n |-> k]

Name_empty == << >>
Name_blank == << Run(" ", 2) >>
Name_a == << Run("a", 1) >>
Name_mixed == << Run("t", 1), Run(".", 1), Run("_", 1), Run("-", 1), Run("Z", 1), Run("9", 1) >>
Name_longest == << Run("a", 249) >>
Name_tooLong == << Run("a", 250) >>
Name_MyTopic == << Run("M", 1), Run("y", 1), Run(" ", 1), Run("T", 1), Run("!", 1) >>

\* the topic names given to the operations
TopicNames ==
  { Name_empty, Name_blank, Name_a, Name_mixed, Name_longest, Name_tooLong,
    Name_MyTopic }

\* the characters of TopicNames that the class [a-zA-Z0-9._-] contains
PatternChars == {"a", "t", "y", "M", "T", "Z", "9", ".", "_", "-"}

\* String.prototype.length
RECURSIVE StrLen(_)
StrLen(str) == IF str = << >> THEN 0 ELSE Head(str).n + StrLen(Tail(str))

\* String.prototype.trim() === ''
TrimIsEmpty(str) == \A i \in 1..Len(str) : str[i].ch = " " \/ str[i].n = 0

\* /^[a-zA-Z0-9._-]+$/.test(str)
MatchesNamePattern(str) ==
  /\ StrLen(str) >= 1
  /\ \A i \in 1..Len(str) : str[i].n > 0 => str[i].ch \in PatternChars

\* createTopic's and the form schema's limit on the length of a name
MaxTopicNameLength == 249

\* the names the claims call valid: [A-Za-z0-9._-]+ of length at most 249
ValidName(str) == MatchesNamePattern(str) /\ StrLen(str) <= MaxTopicNameLength

createTopic_ValidateName_NoLengthCheck(topicName) ==
  IF topicName = << >> \/ TrimIsEmpty(topicName)
  THEN "Topic name cannot be empty"
  ELSE IF ~MatchesNamePattern(topicName)
  THEN "Topic name can only contain letters, numbers, dots, hyphens, and underscores"
  ELSE ""

\* createTopic's checks of the name, in order: the message thrown, "" for none
createTopic_ValidateName(topicName) ==
  IF topicName = << >> \/ TrimIsEmpty(topicName)
  THEN "Topic name cannot be empty"
  ELSE IF StrLen(topicName) > MaxTopicNameLength
  THEN "Topic name cannot exceed 249 characters"
  ELSE IF ~MatchesNamePattern(topicName)
  THEN "Topic name can only contain letters, numbers, dots, hyphens, and underscores"
  ELSE ""

NameMessages ==
  { "Topic name cannot be empty",
    "Topic name cannot exceed 249 characters",
    "Topic name can only contain letters, numbers, dots, hyphens, and underscores" }

\* ------------------------------------------------------------------------
\* Inputs and replies of the aggregation and command operations
\* ------------------------------------------------------------------------
\* brokers a describeCluster reply may list
MaxBrokers == 2
\* partitions of each topic in a fetchTopicMetadata reply
MaxPartitionsPerTopic == 1
MaxPendingConnects == 2
MaxPendingDisconnects == 1
MaxFetches == 3

\* the topics the cluster may hold: a listTopics reply is a subset
ClusterTopicNames == { Name_a, Name_mixed }

\* a config object, as the sequence of its entries << key, value >>
ConfigEmpty == << >>
ConfigRetention == << << "retention.ms", "1000" >> >>

\* partitions, replicationFactor and the optional config given to createTopic
\* and to POST /kafka/topics: at and beyond the limits of the form schema
Setting(p, rf, present, config) ==
  [partitions |-> p, replicationFactor |-> rf,
   config |-> [present |-> present, value |-> config]]
TopicSettings ==
  { Setting(1, 1, FALSE, ConfigEmpty), Setting(1000, 2, TRUE, ConfigRetention),
    Setting(0, 1, FALSE, ConfigEmpty), Setting(1001, 11, TRUE, ConfigRetention) }

\* Object.entries(config).map(([key, value]) => ({ name: key, value }))
ConfigEntries(config) ==
  [i \in 1..Len(config) |-> [name |-> config[i][1], value |-> config[i][2]]]

\* topics.slice(0, 50) of getClusterOverview and topics.slice(0, 20) of getBrokers
OverviewSampleSize == 50
BrokersSampleSize == 20

\* topics of the cluster beyond those of ClusterTopicNames: none, or as many
\* as bring the number of topics to the sample sizes of getBrokers and
\* getClusterOverview and just beyond them
MoreTopics == {0, BrokersSampleSize - 1, OverviewSampleSize - 1}

\* the sampled topics that have one partition more than the others
HeavyTopics == {0, 1, OverviewSampleSize \div 2}

\* what the admin client answers to one await of an operation: ok is false
\* when the awaited RPC (or one of the awaited RPCs) rejects; brokers is
\* metadata.brokers.length; topics are the topic names of ClusterTopicNames
\* and more the number of further topics in the answer; partitions is the
\* number of partitions of a topic and heavy the number of topics that have
\* one more
Reply(ok, brokers, topics, more, partitions, heavy) ==
  [ok |-> ok, brokers |-> brokers, topics |-> topics, more |-> more,
   partitions |-> partitions, heavy |-> heavy]

\* topics.length of a listTopics answer
TopicCount(reply) == Cardinality(reply.topics) + reply.more

ClusterReplies ==
  { Reply(ok, b, {}, 0, 1, 0) : ok \in BOOLEAN, b \in 0..MaxBrokers }
TopicsReplies ==
  { Reply(ok, 0, t, m, 1, 0) :
    ok \in BOOLEAN, t \in SUBSET ClusterTopicNames, m \in MoreTopics }
ClusterAndTopicsReplies ==
  { Reply(ok, b, t, m, 1, 0) :
    ok \in BOOLEAN, b \in 0..MaxBrokers, t \in SUBSET ClusterTopicNames,
    m \in MoreTopics }
\* fetchTopicMetadata of `asked` topics, all of them found
SampleReplies(asked) ==
  { Reply(ok, 0, {}, 0, p, h) :
    ok \in BOOLEAN, p \in 1..MaxPartitionsPerTopic,
    h \in {k \in HeavyTopics : k <= asked} }
\* fetchTopicMetadata of one topic, found or not
TopicReplies ==
  { Reply(ok, 0, t, 0, p, 0) :
    ok \in BOOLEAN, t \in SUBSET ClusterTopicNames, p \in 1..MaxPartitionsPerTopic }
\* an RPC whose answer holds nothing the operation reads but its success
PlainReplies == { Reply(ok, 0, {}, 0, 1, 0) : ok \in BOOLEAN }

Replies ==
  ClusterAndTopicsReplies \cup UNION { SampleReplies(k) : k \in HeavyTopics }
    \cup TopicReplies

NotConnectedError == "Not connected to Kafka cluster"
\* the message of a rejected RPC
RpcError == "Request timed out"
\* the TypeError of a call on this.admin when it is null
NullAdminError == "Cannot read properties of null"

Operations ==
  { "getClusterOverview", "getBrokers", "getTopics", "getTopicDetails",
    "createTopic", "deleteTopic", "updateTopicConfig" }

\* the prefix each operation's catch block puts before the message
ErrorPrefix(op) ==
  CASE op = "getClusterOverview" -> "Failed to fetch cluster overview: "
    [] op = "getBrokers" -> "Failed to fetch brokers: "
    [] op = "getTopics" -> "Failed to fetch topics: "
    [] op = "getTopicDetails" -> "Failed to fetch topic details: "
    [] op = "createTopic" -> "Failed to create topic: "
    [] op = "deleteTopic" -> "Failed to delete topic: "
    [] op = "updateTopicConfig" -> "Failed to update topic configuration: "

\* ------------------------------------------------------------------------
\* One request: a call of an operation, made directly or by a route handler
\* ------------------------------------------------------------------------
NoResult == [outcome |-> "none", error |-> "", data |-> NullObj]

Idle ==
  [via |-> "none", op |-> "", body |-> NullObj, arg |-> NullObj, pc |-> "idle",
   guardActive |-> FALSE, called |-> FALSE, callActive |-> FALSE,
   rpcs |-> << >>, locals |-> NullObj, result |-> NoResult, response |-> NullObj]

\* the operation's promise rejects with msg
Rejected(r, msg) ==
  [r EXCEPT !.pc = "settled",
            !.result = [outcome |-> "rejected", error |-> msg, data |-> NullObj]]

\* the operation's outer catch block: the message is prefixed and rethrown
Failed(r, msg) == Rejected(r, ErrorPrefix(r.op) \o msg)

Resolved(r, data) ==
  [r EXCEPT !.pc = "settled",
            !.result = [outcome |-> "resolved", error |-> "", data |-> data]]

\* this.admin.rpc(args) is called on the handle held now and awaited
Call(r, s, rpc, args, pc) ==
  [r EXCEPT !.rpcs = Append(@, [rpc |-> rpc, h |-> s.admin, args |-> args]),
            !.pc = pc]

guard_OnlyIsConnected(s) == ~s.isConnected

\* if (!this.admin || !this.isConnected) throw
guard(s) == s.admin = Null \/ ~s.isConnected

\* ------------------------------------------------------------------------
\* KafkaService: the aggregation operations
\* ------------------------------------------------------------------------
Min(a, b) == IF a <= b THEN a ELSE b

\* Math.round(num / den) for num >= 0, den > 0
RoundDiv(num, den) == (2 * num + den) \div (2 * den)

\* the object getClusterOverview returns
Overview(brokers, topicsCount, partitionsCount) ==
  LET brokersTotal == brokers
      brokersOnline == brokers
  IN [brokersOnline |-> brokersOnline, brokersTotal |-> brokersTotal,
      topicsCount |-> topicsCount, partitionsCount |-> partitionsCount,
      consumerGroupsCount |-> 0, messagesPerSecond |-> 0,
      status |-> IF brokersOnline = brokersTotal THEN "healthy" ELSE "warning"]

getClusterOverview_Begin(r, s) ==
  IF guard(s) THEN Rejected(r, NotConnectedError)
  ELSE Call(Call(r, s, "describeCluster", NullObj, "awaitClusterAndTopics"),
            s, "listTopics", NullObj, "awaitClusterAndTopics")

\* Promise.all([describeCluster, listTopics]) settled
getClusterOverview_AfterAll(r, s, reply) ==
  LET n == TopicCount(reply)
      sample == Min(n, OverviewSampleSize)
  IN IF ~reply.ok THEN Failed(r, RpcError)
     ELSE IF sample = 0 THEN Resolved(r, Overview(reply.brokers, n, 0))
     ELSE IF s.admin = Null THEN Resolved(r, Overview(reply.brokers, n, n * 3))
     ELSE [Call(r, s, "fetchTopicMetadata", [topics |-> sample], "awaitSample")
             EXCEPT !.locals = [brokers |-> reply.brokers, topics |-> n]]

\* topicMetadata.topics.reduce((total, topic) => total + topic.partitions.length, 0)
PartitionSum(asked, reply) == asked * reply.partitions + reply.heavy

getClusterOverview_Estimate_Unscaled(n, sum) == sum

\* the partitionsCount of getClusterOverview from the partitions of the sample
getClusterOverview_Estimate(n, sum) ==
  IF n > OverviewSampleSize
  THEN RoundDiv(sum * n, Min(n, OverviewSampleSize))
  ELSE sum

getClusterOverview_Fallback_Zero(n) == 0

\* partitionsCount = topics.length * 3 of the inner catch block
getClusterOverview_Fallback(n) == n * 3

\* fetchTopicMetadata of the sampled topics settled
getClusterOverview_AfterSample(r, s, reply) ==
  LET n == r.locals.topics
      sample == Min(n, OverviewSampleSize)
      partitionsCount ==
        IF ~reply.ok THEN getClusterOverview_Fallback(n)
        ELSE getClusterOverview_Estimate(n, PartitionSum(sample, reply))
  IN [Resolved(r, Overview(r.locals.brokers, n, partitionsCount))
        EXCEPT !.locals = [brokers |-> r.locals.brokers, topics |-> n,
                           sampleOk |-> reply.ok,
                           sum |-> PartitionSum(sample, reply)]]

\* what getBrokers returns: one entry per broker of describeCluster, each
\* with the topicCount and partitionCount computed from the sample (every
\* partition of the sampled topics has a replica on every broker)
BrokerList(brokers, topicCount, partitionCount) ==
  [brokers |-> brokers,
   topicCount |-> IF brokers = 0 THEN 0 ELSE topicCount,
   partitionCount |-> IF brokers = 0 THEN 0 ELSE partitionCount]

getBrokers_Begin(r, s) ==
  IF guard(s) THEN Rejected(r, NotConnectedError)
  ELSE Call(r, s, "describeCluster", NullObj, "awaitCluster")

getBrokers_AfterCluster(r, s, reply) ==
  IF ~reply.ok THEN Failed(r, RpcError)
  ELSE IF s.admin = Null THEN Resolved(r, BrokerList(reply.brokers, 0, 0))
  ELSE [Call(r, s, "listTopics", NullObj, "awaitTopics")
          EXCEPT !.locals = [brokers |-> reply.brokers]]

getBrokers_AfterTopics(r, s, reply) ==
  LET n == TopicCount(reply)
  IN IF ~reply.ok \/ n = 0 \/ s.admin = Null
     THEN [Resolved(r, BrokerList(r.locals.brokers, 0, 0))
             EXCEPT !.locals = [brokers |-> r.locals.brokers, countsOk |-> FALSE]]
     ELSE [Call(r, s, "fetchTopicMetadata",
                [topics |-> Min(n, BrokersSampleSize)], "awaitSample")
             EXCEPT !.locals = [brokers |-> r.locals.brokers, topics |-> n]]

\* brokerTopicCounts when the inner try block threw: {}, read as 0
getBrokers_Uncounted(sample, sum) == [topics |-> 0, partitions |-> 0]

\* brokerTopicCounts of a broker after the sample was counted and scaled
getBrokers_Counted(n, sample, sum) ==
  IF n > sample
  THEN [topics |-> RoundDiv(sample * n, sample), partitions |-> RoundDiv(sum * n, sample)]
  ELSE [topics |-> sample, partitions |-> sum]

getBrokers_AfterSample(r, s, reply) ==
  LET n == r.locals.topics
      sample == Min(n, BrokersSampleSize)
      sum == PartitionSum(sample, reply)
      counts == IF reply.ok THEN getBrokers_Counted(n, sample, sum)
                ELSE getBrokers_Uncounted(sample, sum)
  IN [Resolved(r, BrokerList(r.locals.brokers, counts.topics, counts.partitions))
        EXCEPT !.locals = [brokers |-> r.locals.brokers, countsOk |-> reply.ok]]

\* the configEntries describeConfigs answers for a topic of the cluster
DescribedEntries == << [configName |-> "retention.ms", configValue |-> "1000"] >>

\* configEntries.reduce((acc, entry) => { acc[entry.configName] = entry.configValue })
ConfigOf(entries) ==
  [i \in 1..Len(entries) |-> << entries[i].configName, entries[i].configValue >>]

\* the config of a returned topic: that of describeConfigs, {} when it failed
TopicConfig(configsOk) == IF configsOk THEN ConfigOf(DescribedEntries) ELSE ConfigEmpty

\* what getTopics returns: count topics, those of ClusterTopicNames among
\* them, each with its partitions and config; getTopicDetails returns one
TopicList(topics, count, partitions, config) ==
  [topics |-> topics, count |-> count, partitions |-> partitions, config |-> config]

getTopics_Begin(r, s) ==
  IF guard(s) THEN Rejected(r, NotConnectedError)
  ELSE Call(r, s, "listTopics", NullObj, "awaitTopics")

getTopics_AfterTopics(r, s, reply) ==
  IF ~reply.ok THEN Failed(r, RpcError)
  ELSE IF TopicCount(reply) = 0 THEN Resolved(r, TopicList({}, 0, 0, ConfigEmpty))
  ELSE IF s.admin = Null THEN Failed(r, NullAdminError)
  ELSE [Call(r, s, "fetchTopicMetadata", [topics |-> TopicCount(reply)], "awaitMetadata")
          EXCEPT !.locals = [topics |-> reply.topics, count |-> TopicCount(reply)]]

getTopics_AfterMetadata(r, s, reply) ==
  IF ~reply.ok THEN [Failed(r, RpcError) EXCEPT !.locals = NullObj]
  ELSE IF s.admin = Null
  THEN [Resolved(r, TopicList(r.locals.topics, r.locals.count, reply.partitions,
                              TopicConfig(FALSE)))
          EXCEPT !.locals = [configsOk |-> FALSE]]
  ELSE [Call(r, s, "describeConfigs", [topics |-> r.locals.count], "awaitConfigs")
          EXCEPT !.locals = [topics |-> r.locals.topics, count |-> r.locals.count,
                             partitions |-> reply.partitions]]

getTopics_AfterConfigs(r, s, reply) ==
  [Resolved(r, TopicList(r.locals.topics, r.locals.count, r.locals.partitions,
                         TopicConfig(reply.ok)))
     EXCEPT !.locals = [configsOk |-> reply.ok]]

getTopicDetails_Begin(r, s) ==
  IF guard(s) THEN Rejected(r, NotConnectedError)
  ELSE Call(r, s, "fetchTopicMetadata", [topics |-> << r.arg.name >>], "awaitMetadata")

getTopicDetails_AfterMetadata(r, s, reply) ==
  IF ~reply.ok THEN Failed(r, RpcError)
  ELSE IF reply.topics = {} THEN Failed(r, "Topic '${topicName}' not found")
  ELSE IF s.admin = Null
  THEN [Resolved(r, TopicList({r.arg.name}, 1, reply.partitions, TopicConfig(FALSE)))
          EXCEPT !.locals = [configsOk |-> FALSE]]
  ELSE [Call(r, s, "describeConfigs", [topics |-> << r.arg.name >>], "awaitConfigs")
          EXCEPT !.locals = [partitions |-> reply.partitions]]

getTopicDetails_AfterConfigs(r, s, reply) ==
  [Resolved(r, TopicList({r.arg.name}, 1, r.locals.partitions, TopicConfig(reply.ok)))
     EXCEPT !.locals = [configsOk |-> reply.ok]]

\* ------------------------------------------------------------------------
\* KafkaService: the topic commands
\* ------------------------------------------------------------------------
\* createTopic's locals: what listTopics and describeCluster answered
NothingSeen == [listed |-> FALSE, exists |-> FALSE, described |-> FALSE, brokers |-> 0]

\* the topics entry createTopic passes to admin.createTopics
CreateTopicsArgs(arg) ==
  [topic |-> arg.name, numPartitions |-> arg.partitions,
   replicationFactor |-> arg.replicationFactor,
   configEntries |-> ConfigEntries(arg.config)]

createTopic_Begin(r, s) ==
  IF guard(s) THEN Rejected(r, NotConnectedError)
  ELSE IF createTopic_ValidateName(r.arg.name) # ""
  THEN Failed(r, createTopic_ValidateName(r.arg.name))
  ELSE [Call(r, s, "listTopics", NullObj, "awaitTopics") EXCEPT !.locals = NothingSeen]

createTopic_AfterTopics(r, s, reply) ==
  LET exists == r.arg.name \in reply.topics
      seen == [r EXCEPT !.locals.listed = TRUE, !.locals.exists = exists]
  IN IF ~reply.ok THEN Failed(r, RpcError)
     ELSE IF exists THEN Failed(seen, "Topic '${topicName}' already exists")
     ELSE IF s.admin = Null THEN Failed(seen, NullAdminError)
     ELSE Call(seen, s, "describeCluster", NullObj, "awaitCluster")

createTopic_ExceedsBrokers_OffByOne(replicationFactor, brokers) ==
  replicationFactor > brokers + 1

\* if (replicationFactor > metadata.brokers.length) throw
createTopic_ExceedsBrokers(replicationFactor, brokers) == replicationFactor > brokers

createTopic_AfterCluster(r, s, reply) ==
  LET seen == [r EXCEPT !.locals.described = TRUE, !.locals.brokers = reply.brokers]
  IN IF ~reply.ok THEN Failed(r, RpcError)
     ELSE IF createTopic_ExceedsBrokers(r.arg.replicationFactor, reply.brokers)
     THEN Failed(seen, "Replication factor ${replicationFactor} cannot exceed broker count ${metadata.brokers.length}")
     ELSE IF s.admin = Null THEN Failed(seen, NullAdminError)
     ELSE Call(seen, s, "createTopics", CreateTopicsArgs(r.arg), "awaitCreate")

createTopic_AfterCreate(r, s, reply) ==
  IF reply.ok THEN Resolved(r, NullObj) ELSE Failed(r, RpcError)

deleteTopic_Begin(r, s) ==
  IF guard(s) THEN Rejected(r, NotConnectedError)
  ELSE Call(r, s, "listTopics", NullObj, "awaitTopics")

deleteTopic_AfterTopics(r, s, reply) ==
  IF ~reply.ok THEN Failed(r, RpcError)
  ELSE IF r.arg.name \notin reply.topics
  THEN Failed(r, "Topic '${topicName}' does not exist")
  ELSE IF s.admin = Null THEN Failed(r, NullAdminError)
  ELSE Call(r, s, "deleteTopics", [topics |-> << r.arg.name >>], "awaitDelete")

deleteTopic_AfterDelete(r, s, reply) ==
  IF reply.ok THEN Resolved(r, NullObj) ELSE Failed(r, RpcError)

updateTopicConfig_Begin(r, s) ==
  IF guard(s) THEN Rejected(r, NotConnectedError)
  ELSE Call(r, s, "listTopics", NullObj, "awaitTopics")

updateTopicConfig_AfterTopics(r, s, reply) ==
  IF ~reply.ok THEN Failed(r, RpcError)
  ELSE IF r.arg.name \notin reply.topics
  THEN Failed(r, "Topic '${topicName}' does not exist")
  ELSE IF s.admin = Null THEN Failed(r, NullAdminError)
  ELSE Call(r, s, "alterConfigs",
            [name |-> r.arg.name, configEntries |-> ConfigEntries(r.arg.config)],
            "awaitAlter")

updateTopicConfig_AfterAlter(r, s, reply) ==
  IF reply.ok THEN Resolved(r, NullObj) ELSE Failed(r, RpcError)

\* the operation is entered: it runs to its first await, or throws
Begin(r, s) ==
  CASE r.op = "getClusterOverview" -> getClusterOverview_Begin(r, s)
    [] r.op = "getBrokers" -> getBrokers_Begin(r, s)
    [] r.op = "getTopics" -> getTopics_Begin(r, s)
    [] r.op = "getTopicDetails" -> getTopicDetails_Begin(r, s)
    [] r.op = "createTopic" -> createTopic_Begin(r, s)
    [] r.op = "deleteTopic" -> deleteTopic_Begin(r, s)
    [] r.op = "updateTopicConfig" -> updateTopicConfig_Begin(r, s)

\* the awaited RPC settled with reply: the operation runs to its next await,
\* or settles
Continue(r, s, reply) ==
  CASE r.op = "getClusterOverview" /\ r.pc = "awaitClusterAndTopics" ->
         getClusterOverview_AfterAll(r, s, reply)
    [] r.op = "getClusterOverview" /\ r.pc = "awaitSample" ->
         getClusterOverview_AfterSample(r, s, reply)
    [] r.op = "getBrokers" /\ r.pc = "awaitCluster" -> getBrokers_AfterCluster(r, s, reply)
    [] r.op = "getBrokers" /\ r.pc = "awaitTopics" -> getBrokers_AfterTopics(r, s, reply)
    [] r.op = "getBrokers" /\ r.pc = "awaitSample" -> getBrokers_AfterSample(r, s, reply)
    [] r.op = "getTopics" /\ r.pc = "awaitTopics" -> getTopics_AfterTopics(r, s, reply)
    [] r.op = "getTopics" /\ r.pc = "awaitMetadata" -> getTopics_AfterMetadata(r, s, reply)
    [] r.op = "getTopics" /\ r.pc = "awaitConfigs" -> getTopics_AfterConfigs(r, s, reply)
    [] r.op = "getTopicDetails" /\ r.pc = "awaitMetadata" ->
         getTopicDetails_AfterMetadata(r, s, reply)
    [] r.op = "getTopicDetails" /\ r.pc = "awaitConfigs" ->
         getTopicDetails_AfterConfigs(r, s, reply)
    [] r.op = "createTopic" /\ r.pc = "awaitTopics" -> createTopic_AfterTopics(r, s, reply)
    [] r.op = "createTopic" /\ r.pc = "awaitCluster" -> createTopic_AfterCluster(r, s, reply)
    [] r.op = "createTopic" /\ r.pc = "awaitCreate" -> createTopic_AfterCreate(r, s, reply)
    [] r.op = "deleteTopic" /\ r.pc = "awaitTopics" -> deleteTopic_AfterTopics(r, s, reply)
    [] r.op = "deleteTopic" /\ r.pc = "awaitDelete" -> deleteTopic_AfterDelete(r, s, reply)
    [] r.op = "updateTopicConfig" /\ r.pc = "awaitTopics" ->
         updateTopicConfig_AfterTopics(r, s, reply)
    [] r.op = "updateTopicConfig" /\ r.pc = "awaitAlter" ->
         updateTopicConfig_AfterAlter(r, s, reply)

AwaitingRpc(r) == r.pc \notin {"idle", "readBody", "settled", "done"}

\* the answers the admin client may give to the RPC the operation awaits
RepliesTo(r) ==
  LET awaited == r.rpcs[Len(r.rpcs)]
  IN CASE r.pc = "awaitClusterAndTopics" -> ClusterAndTopicsReplies
       [] r.pc = "awaitCluster" -> ClusterReplies
       [] r.pc = "awaitTopics" -> TopicsReplies
       [] r.pc = "awaitSample" -> SampleReplies(awaited.args.topics)
       [] r.pc = "awaitMetadata" /\ r.op = "getTopicDetails" -> TopicReplies
       [] r.pc = "awaitMetadata" /\ r.op = "getTopics" -> SampleReplies(0)
       [] OTHER -> PlainReplies

\* ------------------------------------------------------------------------
\* Route handlers of /kafka/cluster, /kafka/brokers and /kafka/topics
\* ------------------------------------------------------------------------
\* limits of createTopicFormSchema
MinPartitions == 1
MaxPartitions == 1000
MinReplicas == 1
MaxReplicas == 10

RouteOperations ==
  { "getClusterOverview", "getBrokers", "getTopics", "createTopic", "deleteTopic" }
\* the handlers that read a request body: POST and DELETE /kafka/topics
BodyOperations == { "createTopic", "deleteTopic" }

\* request bodies: one that is no JSON, and the objects of the two schemas;
\* config is optional in the body of POST
NoBody == [json |-> FALSE]
PostBodies ==
  { [json |-> TRUE, name |-> n, partitions |-> t.partitions,
     replicationFactor |-> t.replicationFactor, config |-> t.config] :
    n \in TopicNames, t \in TopicSettings }
DeleteBodies == [json : {TRUE}, topicName : {Name_empty, Name_a, Name_MyTopic}]
Bodies(op) ==
  IF op = "createTopic" THEN PostBodies \cup {NoBody} ELSE DeleteBodies \cup {NoBody}

Issue(field, message) == [field |-> field, message |-> message]
When(cond, issue) == IF cond THEN << issue >> ELSE << >>

\* createTopicFormSchema.safeParse(body): the issues, none when it succeeds
createTopicFormSchema(body) ==
  When(StrLen(body.name) < 1, Issue("name", "Topic name is required"))
  \o When(StrLen(body.name) > MaxTopicNameLength,
          Issue("name", "Topic name cannot exceed 249 characters"))
  \o When(~MatchesNamePattern(body.name),
          Issue("name", "Topic name can only contain letters, numbers, dots, hyphens, and underscores"))
  \o When(body.partitions < MinPartitions,
          Issue("partitions", "Must have at least 1 partition"))
  \o When(body.partitions > MaxPartitions,
          Issue("partitions", "Maximum 1000 partitions allowed"))
  \o When(body.replicationFactor < MinReplicas,
          Issue("replicationFactor", "Must have at least 1 replica"))
  \o When(body.replicationFactor > MaxReplicas,
          Issue("replicationFactor", "Maximum 10 replicas allowed"))

\* deleteTopicSchema.safeParse(body)
deleteTopicSchema(body) ==
  When(StrLen(body.topicName) < 1, Issue("topicName", "Topic name is required"))

\* config || {}
ConfigOrEmpty(config) == IF config.present THEN config.value ELSE ConfigEmpty

\* the arguments the handler passes to the operation
ServiceArgs(op, body) ==
  IF op = "createTopic"
  THEN [name |-> body.name, partitions |-> body.partitions,
        replicationFactor |-> body.replicationFactor,
        config |-> ConfigOrEmpty(body.config)]
  ELSE [name |-> body.topicName]

\* NextResponse.json(...): the status and the fields of the envelope
Response(status, success, error, message, data, details) ==
  [status |-> status, success |-> success, error |-> error, message |-> message,
   data |-> data, details |-> details]

NotConnectedMessage(op) ==
  CASE op = "getClusterOverview" -> "Please establish a connection first"
    [] op = "getBrokers" -> "Please establish a connection to view brokers"
    [] op = "getTopics" -> "Please establish a connection to view topics"
    [] op = "createTopic" -> "Please establish a connection to create topics"
    [] op = "deleteTopic" -> "Please establish a connection to delete topics"

\* the overview GET /kafka/cluster puts into its answer when
\* getClusterOverview rejects
FallbackOverview ==
  [brokersOnline |-> 0, brokersTotal |-> 0, topicsCount |-> 0, partitionsCount |-> 0,
   consumerGroupsCount |-> 0, messagesPerSecond |-> 0, status |-> "unknown"]

Route_NotConnected_WithFallback(op) ==
  Response(401, FALSE, NotConnectedError, NotConnectedMessage(op),
           IF op = "getClusterOverview" THEN FallbackOverview ELSE NullObj, NullObj)

\* the answer of the connection guard
Route_NotConnected(op) ==
  Response(401, FALSE, NotConnectedError, NotConnectedMessage(op), NullObj, NullObj)

Route_InvalidJson == Response(400, FALSE, "Invalid JSON in request body", "", NullObj, NullObj)

Route_InvalidBody(op, issues) ==
  Response(400, FALSE,
           IF op = "createTopic" THEN "Invalid topic creation parameters"
           ELSE "Invalid topic deletion parameters",
           "", NullObj, issues)

\* the answer when the operation resolved
Route_Success(op, arg, data) ==
  CASE op = "getClusterOverview" -> Response(200, TRUE, "", "", data, NullObj)
    [] op = "getBrokers" ->
         Response(200, TRUE, "", "", [brokers |-> data, count |-> data.brokers], NullObj)
    [] op = "getTopics" ->
         Response(200, TRUE, "", "",
                  [topics |-> data, count |-> data.count], NullObj)
    [] op = "createTopic" ->
         Response(200, TRUE, "", "Topic '${name}' created successfully",
                  [name |-> arg.name, partitions |-> arg.partitions,
                   replicationFactor |-> arg.replicationFactor, config |-> arg.config,
                   status |-> "active"],
                  NullObj)
    [] op = "deleteTopic" ->
         Response(200, TRUE, "", "Topic '${topicName}' deleted successfully",
                  [topicName |-> arg.name], NullObj)

Route_Failure_Status503(op, arg, error) ==
  Response(503, FALSE, error, "", NullObj, NullObj)

\* the answer when the operation rejected with error
Route_Failure(op, arg, error) ==
  CASE op = "getClusterOverview" -> Response(503, FALSE, error, "", FallbackOverview, NullObj)
    [] op = "getBrokers" -> Response(503, FALSE, error, "", [brokers |-> << >>], NullObj)
    [] op = "getTopics" ->
         Response(503, FALSE, error, "", [topics |-> << >>, count |-> 0], NullObj)
    [] op = "createTopic" ->
         Response(422, FALSE, error, "", NullObj,
                  [topicName |-> arg.name, partitions |-> arg.partitions,
                   replicationFactor |-> arg.replicationFactor])
    [] op = "deleteTopic" ->
         Response(422, FALSE, error, "", NullObj, [topicName |-> arg.name])

\* the handler's continuation after the operation settled
Route_Settled(r) ==
  IF r.result.outcome = "resolved"
  THEN Route_Success(r.op, r.arg, r.result.data)
  ELSE Route_Failure(r.op, r.arg, r.result.error)

\* an operation that settled returns to its caller: a handler answers
Finish(r) ==
  IF r.pc # "settled" THEN r
  ELSE IF r.via = "route" THEN [r EXCEPT !.pc = "done", !.response = Route_Settled(r)]
  ELSE [r EXCEPT !.pc = "done"]

\* the operation is called with arg
Invoke(r, arg, s) ==
  Finish(Begin([r EXCEPT !.arg = arg, !.called = TRUE,
                         !.callActive = isConnectionActive(s)], s))

Route_Guard_Absent(s) == FALSE

\* if (!kafkaService.isConnectionActive()) return 401
Route_Guard(s) == ~isConnectionActive(s)

\* a handler is entered: the connection guard, then the operation (GET) or
\* the await of request.json() (POST, DELETE)
Route_Enter(op, body, s) ==
  LET r == [Idle EXCEPT !.via = "route", !.op = op, !.body = body,
                        !.guardActive = isConnectionActive(s)]
  IN IF Route_Guard(s) THEN [r EXCEPT !.pc = "done", !.response = Route_NotConnected(op)]
     ELSE IF op \in BodyOperations THEN [r EXCEPT !.pc = "readBody"]
     ELSE Invoke(r, NullObj, s)

\* request.json() settled: the body is validated, then the operation called
Route_BodyRead(r, s) ==
  LET issues == IF r.op = "createTopic" THEN createTopicFormSchema(r.body)
                ELSE deleteTopicSchema(r.body)
  IN IF ~r.body.json THEN [r EXCEPT !.pc = "done", !.response = Route_InvalidJson]
     ELSE IF issues # << >>
     THEN [r EXCEPT !.pc = "done", !.response = Route_InvalidBody(r.op, issues)]
     ELSE Invoke(r, ServiceArgs(r.op, r.body), s)

\* the arguments of direct calls of the operations
DirectArgs(op) ==
  CASE op \in {"getClusterOverview", "getBrokers", "getTopics"} -> { NullObj }
    [] op \in {"getTopicDetails", "deleteTopic"} ->
         [name : {Name_a, Name_MyTopic}]
    [] op = "updateTopicConfig" -> [name : {Name_a}, config : {ConfigRetention}]
    [] op = "createTopic" ->
         { [name |-> n, partitions |-> t.partitions,
            replicationFactor |-> t.replicationFactor,
            config |-> ConfigOrEmpty(t.config)] :
           n \in TopicNames, t \in TopicSettings }

\* ------------------------------------------------------------------------
\* Admin handles
\* ------------------------------------------------------------------------
\* a handle not yet created; by is the call that creates it ("initialize" or
\* "connect"), closer the call that called admin.disconnect() on it
\* ("disconnect", or the "initialize" or "connect" whose catch block did)
NoHandle ==
  [connect |-> "none", disconnectCalled |-> FALSE, by |-> "none", closer |-> "none"]

Created == {h \in HandleIds : handles[h].connect # "none"}

\* handles whose connection was established and on which admin.disconnect()
\* was never called
OpenHandles ==
  {h \in HandleIds : handles[h].connect = "connected" /\ ~handles[h].disconnectCalled}

\* nothing completed in the last step
Quiet == [op |-> "none", outcome |-> "none", close |-> "none"]

\* the service call `op` completed in the last step with `outcome`; `close`
\* tells how the admin.disconnect() it awaited settled ("none": none awaited)
Completed(op, outcome, close) == [op |-> op, outcome |-> outcome, close |-> close]

CloseResult(closeOk) == IF closeOk THEN "ok" ELSE "failed"

\* how a call ends whose connectWithConfig threw: connect() rejects,
\* initialize() logs the error and resolves
AfterThrow(by) == IF by = "initialize" THEN "resolved" ELSE "rejected"

\* getKafkaConfig(): the servers of KAFKA_BOOTSTRAP_SERVERS, the default client id
getKafkaConfig(env) == ConnectConfig(env, "kafka-ui-client")

\* ------------------------------------------------------------------------
\* ClusterProvider (browser): state, localStorage, connect, disconnect,
\* restoreConnection
\* ------------------------------------------------------------------------
\* a string | null state: null, or the string
NoString == << >>
Str(text) == << text >>

RECURSIVE Blanks(_)
Blanks(n) == IF n = 0 THEN "" ELSE " " \o Blanks(n - 1)

\* the text of a bootstrapServers input as it was typed into the form
RECURSIVE RawServers(_)
RawServers(input) ==
  IF Len(input) = 0 THEN ""
  ELSE Blanks(input[1].lead) \o input[1].text \o Blanks(input[1].trail)
       \o (IF Len(input) = 1 THEN "" ELSE "," \o RawServers(Tail(input)))

ClusterNames == {"dev", "prod"}

\* the ConnectionForm values given to the provider's connect()
ConnectionForms ==
  {[name |-> n, bootstrapServers |-> RawServers(i)] :
     n \in ClusterNames, i \in BootstrapInputs}

\* the KafkaCluster that connect() builds from its form
NewCluster(form) ==
  [id |-> "uuid", name |-> form.name, bootstrapServers |-> form.bootstrapServers,
   status |-> "connected", version |-> "4.0.0", controllerId |-> "unknown"]

\* JSON.stringify of a cluster, the text of an item that is no JSON, and
\* JSON.parse of an item
Stringify(cluster) == [json |-> TRUE, value |-> cluster]
InvalidItem == [json |-> FALSE, value |-> NullObj]
Parse(item) == item.value

\* the 'kafka-cluster' item that an earlier page load left in localStorage
SavedItems ==
  {NullObj, InvalidItem} \cup {Stringify(NewCluster(f)) : f \in ConnectionForms}

\* GET /api/kafka/connect: the data of the answer for the service's fields
GET_Status(s) ==
  IF isConnectionActive(s) /\ getConnectionInfo(s) # NullObj
  THEN [connected |-> TRUE,
        connection |-> [brokers |-> getConnectionInfo(s).brokers,
                        clientId |-> getConnectionInfo(s).clientId,
                        status |-> "active"]]
  ELSE [connected |-> FALSE, connection |-> NullObj]

\* the message of the ApiError that a failed POST /api/kafka/connect gives
ConnectErrorMessage == "Cannot connect to Kafka brokers"

\* what the provider completed in the last step: the call, its outcome, the
\* form or the parsed record it worked on, the server's status answer, and
\* the cluster state that the completing step found
ProviderDid(op, outcome, subject, status, before) ==
  [op |-> op, outcome |-> outcome, subject |-> subject, status |-> status,
   before |-> before]
ProviderQuiet == ProviderDid("none", "none", NullObj, NullObj, NullObj)

NotRestoring == [pc |-> "none", parsed |-> NullObj]
Restored == [pc |-> "done", parsed |-> NullObj]

ConnectSlots == 1..MaxPendingConnects

\* the ConnectionModal: whether it is shown, and the connect() call that its
\* handleSubmit awaits (none: Null)
ModalClosed == [isOpen |-> FALSE, call |-> Null]

\* the provider before it is mounted: the useState initial values
NewProvider ==
  [mounted |-> FALSE, cluster |-> NullObj, isConnecting |-> FALSE,
   connectionError |-> NoString, storage |-> NullObj, restore |-> NotRestoring,
   connects |-> [c \in ConnectSlots |-> NullObj], disconnects |-> 0,
   did |-> ProviderQuiet, modal |-> ModalClosed]

\* restoreConnection up to its await: no item, an item that JSON.parse
\* rejects (the catch removes it), or a parsed record and the status query
restoreConnection_Begin(p) ==
  IF p.storage = NullObj
  THEN [p EXCEPT !.restore = Restored,
                 !.did = ProviderDid("restore", "noRecord", NullObj, NullObj, p.cluster)]
  ELSE IF ~p.storage.json
  THEN [p EXCEPT !.storage = NullObj, !.restore = Restored,
                 !.did = ProviderDid("restore", "invalid", NullObj, NullObj, p.cluster)]
  ELSE [p EXCEPT !.restore = [pc |-> "awaitStatus", parsed |-> Parse(p.storage)],
                 !.did = ProviderQuiet]

\* the record restored without asking the server whether it is connected
restoreConnection_AfterStatus_TrustsRecord(p, status) ==
  [p EXCEPT !.cluster = p.restore.parsed,
            !.restore = Restored,
            !.did = ProviderDid("restore",
                                IF status.connected /\ status.connection # NullObj
                                THEN "connected" ELSE "notConnected",
                                p.restore.parsed, status, p.cluster)]

\* restoreConnection after getConnectionStatus() resolved
restoreConnection_AfterStatus(p, status) ==
  IF status.connected /\ status.connection # NullObj
  THEN [p EXCEPT !.cluster = [p.restore.parsed EXCEPT
                                !.bootstrapServers = status.connection.brokers],
                 !.restore = Restored,
                 !.did = ProviderDid("restore", "connected", p.restore.parsed,
                                     status, p.cluster)]
  ELSE [p EXCEPT !.storage = NullObj,
                 !.restore = Restored,
                 !.did = ProviderDid("restore", "notConnected", p.restore.parsed,
                                     status, p.cluster)]

\* restoreConnection, catch block after getConnectionStatus() rejected
restoreConnection_Catch(p) ==
  [p EXCEPT !.storage = NullObj,
            !.restore = Restored,
            !.did = ProviderDid("restore", "failed", p.restore.parsed, NullObj,
                                p.cluster)]

\* the provider's connect() up to its await
Provider_connect_Begin(p, c, form) ==
  [p EXCEPT !.isConnecting = TRUE, !.connectionError = NoString,
            !.connects[c] = form, !.did = ProviderQuiet]

\* the provider's connect() after kafkaApi.connect() resolved, with finally
Provider_connect_Try(p, c) ==
  [p EXCEPT !.cluster = NewCluster(p.connects[c]),
            !.storage = Stringify(NewCluster(p.connects[c])),
            !.isConnecting = FALSE,
            !.connects[c] = NullObj,
            !.did = ProviderDid("connect", "resolved", p.connects[c], NullObj,
                                p.cluster)]

\* the provider's connect(), catch block, with finally
Provider_connect_Catch(p, c, message) ==
  [p EXCEPT !.connectionError = Str(message),
            !.cluster = NullObj,
            !.isConnecting = FALSE,
            !.connects[c] = NullObj,
            !.did = ProviderDid("connect", "failed", p.connects[c], NullObj,
                                p.cluster)]

\* the provider's disconnect() after kafkaApi.disconnect() resolved
Provider_disconnect_Try(p) ==
  [p EXCEPT !.cluster = NullObj, !.connectionError = NoString,
            !.storage = NullObj, !.disconnects = @ - 1,
            !.did = ProviderDid("disconnect", "resolved", NullObj, NullObj,
                                p.cluster)]

\* a catch block that logs the error and leaves the state as it is
Provider_disconnect_Catch_LogOnly(p) ==
  [p EXCEPT !.disconnects = @ - 1,
            !.did = ProviderDid("disconnect", "failed", NullObj, NullObj,
                                p.cluster)]

\* the provider's disconnect(), catch block
Provider_disconnect_Catch(p) ==
  [p EXCEPT !.cluster = NullObj, !.connectionError = NoString,
            !.storage = NullObj, !.disconnects = @ - 1,
            !.did = ProviderDid("disconnect", "failed", NullObj, NullObj,
                                p.cluster)]

\* ConnectionModal.handleSubmit after `await connect(formData)` of call c
\* resolved (the provider's connect() catches every error): onClose()
ConnectionModal_handleSubmit_AfterConnect(p, c) ==
  IF p.modal.call = c THEN [p EXCEPT !.modal = ModalClosed] ELSE p

\* ConnectionModal.handleClose: clearError() and onClose(); a handleSubmit
\* that is suspended stays suspended
ConnectionModal_handleClose(p) ==
  [p EXCEPT !.connectionError = NoString, !.modal.isOpen = FALSE,
            !.did = ProviderQuiet]

\* clearError()
Provider_clearError(p) ==
  [p EXCEPT !.connectionError = NoString, !.did = ProviderQuiet]

\* ------------------------------------------------------------------------
\* TopicsPage (browser): useDeleteTopic, useCreateTopic, CreateTopicModal
\* ------------------------------------------------------------------------
\* the topics listed on the page
ListedTopics == {"orders", "payments"}

DeleteErrorMessage == "Topic deletion failed"
CreateErrorMessage == "Topic creation failed"

\* what the page completed in the last step: a modal submission (whether the
\* topic was created, whether onClose was called) or a delete (of which topic)
PageDid(op, topic, created, onClose) ==
  [op |-> op, topic |-> topic, created |-> created, onClose |-> onClose]
PageQuiet == PageDid("none", "none", FALSE, FALSE)

\* the page after its first render: the useState initial values, no call
NewPage ==
  [isDeletingTopic |-> NoString, deleteError |-> NoString, deletes |-> {},
   isCreating |-> FALSE, createError |-> NoString,
   isCreateModalOpen |-> FALSE, isSubmitting |-> FALSE, submitPc |-> "none",
   did |-> PageQuiet]

\* useDeleteTopic.deleteTopic up to its await
deleteTopicHook_Begin(pg, topicName) ==
  [pg EXCEPT !.isDeletingTopic = Str(topicName), !.deleteError = NoString,
             !.deletes = @ \cup {topicName}, !.did = PageQuiet]

\* useDeleteTopic.deleteTopic after a successful answer, with finally
deleteTopicHook_Try(pg, topicName) ==
  [pg EXCEPT !.isDeletingTopic = NoString,
             !.deletes = @ \ {topicName},
             !.did = PageDid("delete", topicName, FALSE, FALSE)]

\* useDeleteTopic.deleteTopic, catch block, with finally
deleteTopicHook_Catch(pg, topicName, message) ==
  [pg EXCEPT !.deleteError = Str(message),
             !.isDeletingTopic = NoString,
             !.deletes = @ \ {topicName},
             !.did = PageDid("delete", topicName, FALSE, FALSE)]

\* CreateTopicModal.handleFormSubmit up to the await in useCreateTopic
handleFormSubmit_Begin(pg) ==
  [pg EXCEPT !.isSubmitting = TRUE, !.isCreating = TRUE,
             !.createError = NoString, !.submitPc = "awaitCreate",
             !.did = PageQuiet]

\* handleFormSubmit after onSubmit resolved: reset(), onClose(), finally
handleFormSubmit_Try(pg, created) ==
  [pg EXCEPT !.isCreateModalOpen = FALSE, !.isSubmitting = FALSE,
             !.submitPc = "none",
             !.did = PageDid("submit", "none", created, TRUE)]

\* handleFormSubmit, catch block after onSubmit rejected, with finally
handleFormSubmit_Catch(pg, created) ==
  [pg EXCEPT !.isSubmitting = FALSE, !.submitPc = "none",
             !.did = PageDid("submit", "none", created, FALSE)]

\* TopicsPage.handleCreateTopic, catch block: the error is logged and the
\* promise given to the modal resolves
handleCreateTopic_Catch(pg) == handleFormSubmit_Try(pg, FALSE)

\* useCreateTopic.createTopic after a successful answer, with finally; the
\* refetch of createTopicAndRefresh is awaited next
createTopicHook_Try(pg) ==
  [pg EXCEPT !.isCreating = FALSE, !.submitPc = "awaitRefetch",
             !.did = PageQuiet]

\* useCreateTopic.createTopic, catch block, with finally, and the callers
\* that the rethrown error passes through
createTopicHook_Catch(pg, message) ==
  handleCreateTopic_Catch([pg EXCEPT !.createError = Str(message),
                                     !.isCreating = FALSE])

\* after the refetch of createTopicAndRefresh: handleCreateTopic awaits
\* refetchTopics()
createTopicAndRefresh_AfterRefetch(pg) ==
  [pg EXCEPT !.submitPc = "awaitPageRefetch", !.did = PageQuiet]

\* after refetchTopics() of handleCreateTopic: onSubmit resolves
handleCreateTopic_AfterRefetch(pg) == handleFormSubmit_Try(pg, TRUE)

\* ------------------------------------------------------------------------
\* Resource hooks (browser): useClusterOverview, useTopics with
\* useTopicsAutoRefresh, useBrokerManagement
\* ------------------------------------------------------------------------
HookKinds == {"overview", "topics", "brokers"}

FetchErrorMessage == "Failed to fetch"

\* what the hook did in the last step: started a fetch (by the connection
\* effect, a manual refresh, a poll tick or the retry timer; with a fetch in
\* flight or an error outstanding before) or settled one (ok or not)
HookDid(op, origin, ok, inFlight, errorHeld) ==
  [op |-> op, origin |-> origin, ok |-> ok, inFlight |-> inFlight,
   errorHeld |-> errorHeld]
HookQuiet == HookDid("none", "none", FALSE, FALSE, FALSE)

\* the hook before it is used: data is the number of the fetch whose
\* response is held, 0 when the data is cleared (null, or the empty list)
NewHook ==
  [kind |-> "none", connected |-> FALSE, data |-> 0, isLoading |-> FALSE,
   error |-> NoString, fetches |-> {}, started |-> 0, did |-> HookQuiet]

\* fetchOverview / fetchTopics / fetchBrokers, called while not connected
fetch_NotConnected(h) ==
  [h EXCEPT !.data = 0,
            !.error = IF h.kind = "topics" THEN Str(NotConnectedError) ELSE @,
            !.did = HookQuiet]

\* fetchOverview / fetchTopics / fetchBrokers up to the await of the request
fetch_Begin(h, origin) ==
  IF ~h.connected THEN fetch_NotConnected(h)
  ELSE [h EXCEPT !.isLoading = TRUE, !.error = NoString,
                 !.started = @ + 1,
                 !.fetches = @ \cup {[id |-> h.started + 1, origin |-> origin]},
                 !.did = HookDid("start", origin, FALSE, h.fetches # {},
                                 h.error # NoString)]

\* the try block after the response, with finally
fetch_Try(h, f) ==
  [h EXCEPT !.data = f.id, !.isLoading = FALSE, !.fetches = @ \ {f},
            !.did = HookDid("settle", f.origin, TRUE, FALSE, FALSE)]

\* the catch block, with finally: useBrokerManagement clears its brokers, the
\* other hooks keep their data
fetch_Catch(h, f, message) ==
  [h EXCEPT !.error = Str(message),
            !.data = IF h.kind = "brokers" THEN 0 ELSE @,
            !.isLoading = FALSE, !.fetches = @ \ {f},
            !.did = HookDid("settle", f.origin, FALSE, FALSE, FALSE)]

\* the effect on the connection value: fetch when connected, clear otherwise
connectionEffect(h) ==
  IF h.connected THEN fetch_Begin(h, "effect")
  ELSE [h EXCEPT !.data = 0, !.error = NoString,
                 !.isLoading = IF h.kind = "brokers" THEN FALSE ELSE @,
                 !.did = HookQuiet]

\* the condition under which a tick of setInterval calls the fetch
pollCondition(h) ==
  CASE h.kind = "overview" -> ~h.isLoading /\ h.error = NoString
    [] h.kind = "brokers" -> ~h.isLoading
    [] OTHER -> TRUE

\* the retry effect of useClusterOverview has a timeout pending
retryScheduled(h) == h.kind = "overview" /\ h.error # NoString /\ h.connected

\* ------------------------------------------------------------------------
\* useClusterManagement (browser): the saved-clusters list
\* ------------------------------------------------------------------------
\* an entry of the list: made by addCluster, or by the sync effect from the
\* connected cluster; its id is new at every creation
Entry(name, bootstrapServers, madeBy) ==
  [name |-> name, bootstrapServers |-> bootstrapServers, madeBy |-> madeBy]

\* the entries that addCluster can make from the forms
AddedEntries == {Entry(f.name, f.bootstrapServers, "addCluster") : f \in ConnectionForms}

\* the 'kafka-ui-clusters' items that an earlier page load can have left
SavedLists == {Stringify(list) : list \in (SUBSET AddedEntries) \ {{}}}

\* savedClusters ? JSON.parse(savedClusters) : []
loadClusters(item) == IF item = NullObj THEN {} ELSE Parse(item)

\* what the hook did in the last step, and on which entry
ManagementDid(op, entry) == [op |-> op, entry |-> entry]

\* the hook before it is mounted; connectedCluster is the provider's cluster
NewManagement ==
  [mounted |-> FALSE, clusters |-> {}, stored |-> NullObj,
   connectedCluster |-> NullObj, error |-> NoString,
   did |-> ManagementDid("none", NullObj)]

\* the sync effect, run with the clusters of the render it belongs to: a
\* connected cluster that matches no entry is appended and the list saved
syncEffect(m, clusters) ==
  LET c == m.connectedCluster
      matching == {e \in clusters :
                     e.bootstrapServers = c.bootstrapServers \/ e.name = c.name}
      updatedClusters ==
        clusters \cup {Entry(c.name, c.bootstrapServers, "sync")}
  IN IF c = NullObj \/ matching # {} THEN m
     ELSE [m EXCEPT !.clusters = updatedClusters,
                    !.stored = Stringify(updatedClusters)]

\* the first render and its effects: loadClusters sets the state from the
\* item, and the sync effect runs with the initial state of that render, []
useClusterManagement_Mount(m, connectedCluster) ==
  syncEffect([m EXCEPT !.mounted = TRUE,
                       !.connectedCluster = connectedCluster,
                       !.clusters = loadClusters(m.stored),
                       !.did = ManagementDid("mount", NullObj)],
             {})

\* `A cluster named "${config.name}" already exists`
DuplicateNameError == "A cluster named ... already exists"

\* addCluster(config): the names of the forms are lower case and not blank
addCluster(m, config) ==
  IF \E e \in m.clusters : e.name = config.name
  THEN [m EXCEPT !.error = Str(DuplicateNameError),
                 !.did = ManagementDid("addCluster", NullObj)]
  ELSE LET newCluster == Entry(config.name, config.bootstrapServers, "addCluster")
       IN [m EXCEPT !.error = NoString,
                    !.clusters = @ \cup {newCluster},
                    !.stored = Stringify(m.clusters \cup {newCluster}),
                    !.did = ManagementDid("addCluster", newCluster)]

\* removeCluster(clusterId)
removeCluster(m, entry) ==
  [m EXCEPT !.error = NoString,
            !.clusters = @ \ {entry},
            !.stored = Stringify(m.clusters \ {entry}),
            !.did = ManagementDid("removeCluster", entry)]

\* ------------------------------------------------------------------------
Init ==
  /\ svc = NewService
  /\ handles = [h \in HandleIds |-> NoHandle]
  /\ connectPc = [h \in HandleIds |-> "none"]
  /\ discPending = 0
  /\ last = Quiet
  /\ req = Idle
  /\ provider = NewProvider
  /\ page = NewPage
  /\ hook = NewHook
  /\ mgmt = NewManagement

\* connect(bootstrapServers, clientId) is called: connectWithConfig runs to
\* its await of admin.connect() on the new handle
Connect(h, input) ==
  /\ handles[h].connect = "none"
  /\ \A g \in HandleIds : g < h => handles[g].connect # "none"
  /\ svc' = connectWithConfig_Begin(svc, ConnectConfig(input, "kafka-ui-client"), h)
  /\ handles' = [handles EXCEPT ![h].connect = "connecting", ![h].by = "connect"]
  /\ connectPc' = [connectPc EXCEPT ![h] = "awaitConnect"]
  /\ last' = Quiet
  /\ UNCHANGED << discPending, req, client >>

\* the module is loaded with KAFKA_BOOTSTRAP_SERVERS set: initialize() runs
\* connectWithConfig to its await of admin.connect(), before any other call
Initialize(env) ==
  /\ svc = NewService /\ Created = {} /\ last = Quiet /\ req = Idle
  /\ svc' = connectWithConfig_Begin(svc, getKafkaConfig(env), 1)
  /\ handles' = [handles EXCEPT ![1].connect = "connecting", ![1].by = "initialize"]
  /\ connectPc' = [connectPc EXCEPT ![1] = "awaitConnect"]
  /\ last' = Quiet
  /\ UNCHANGED << discPending, req, client >>

\* admin.connect() of call h resolved: the call resolves
ConnectResolved(h) ==
  /\ connectPc[h] = "awaitConnect"
  /\ svc' = connectWithConfig_Connected(svc)
  /\ handles' = [handles EXCEPT ![h].connect = "connected"]
  /\ connectPc' = [connectPc EXCEPT ![h] = "done"]
  /\ last' = Completed(handles[h].by, "resolved", "none")
  /\ UNCHANGED << discPending, req, client >>

\* admin.connect() of call h rejected: the catch block calls disconnect(),
\* which closes whatever this.admin holds now; with no admin held disconnect()
\* returns at once and connectWithConfig throws the parsed error
ConnectFailed(h) ==
  /\ connectPc[h] = "awaitConnect"
  /\ IF svc.admin # Null
     THEN /\ handles' = [handles EXCEPT ![h].connect = "failed",
                                        ![svc.admin].disconnectCalled = TRUE,
                                        ![svc.admin].closer = handles[h].by]
          /\ connectPc' = [connectPc EXCEPT ![h] = "awaitCleanup"]
          /\ last' = Quiet
          /\ UNCHANGED svc
     ELSE /\ handles' = [handles EXCEPT ![h].connect = "failed"]
          /\ svc' = disconnect_NoAdmin(svc).svc
          /\ connectPc' = [connectPc EXCEPT ![h] = "done"]
          /\ last' = Completed(handles[h].by, AfterThrow(handles[h].by), "none")
  /\ UNCHANGED << discPending, req, client >>

\* the admin.disconnect() awaited by the catch block of call h settled:
\* disconnect() returns and connectWithConfig throws the parsed error
ConnectCleanedUp(h, closeOk) ==
  /\ connectPc[h] = "awaitCleanup"
  /\ svc' = disconnect_Settled(svc, closeOk).svc
  /\ connectPc' = [connectPc EXCEPT ![h] = "done"]
  /\ last' = Completed(handles[h].by, AfterThrow(handles[h].by), CloseResult(closeOk))
  /\ UNCHANGED << handles, discPending, req, client >>

\* disconnect() is called by a caller
Disconnect ==
  IF svc.admin # Null
  THEN /\ discPending < MaxDisconnects
       /\ handles' = [handles EXCEPT ![svc.admin].disconnectCalled = TRUE,
                                     ![svc.admin].closer = "disconnect"]
       /\ discPending' = discPending + 1
       /\ last' = Quiet
       /\ UNCHANGED << svc, connectPc, req, client >>
  ELSE /\ svc' = disconnect_NoAdmin(svc).svc
       /\ last' = Completed("disconnect", disconnect_NoAdmin(svc).outcome, "none")
       /\ UNCHANGED << handles, discPending, connectPc, req, client >>

\* the admin.disconnect() awaited by a caller's disconnect() settled
DisconnectSettled(closeOk) ==
  /\ discPending > 0
  /\ svc' = disconnect_Settled(svc, closeOk).svc
  /\ discPending' = discPending - 1
  /\ last' = Completed("disconnect", disconnect_Settled(svc, closeOk).outcome,
                       CloseResult(closeOk))
  /\ UNCHANGED << handles, connectPc, req, client >>

conn == << svc, handles, connectPc, discPending, last >>
server == << conn, req >>

\* an operation of the service is called directly
CallOperation(op, arg) ==
  /\ req.pc = "idle"
  /\ req' = Invoke([Idle EXCEPT !.via = "direct", !.op = op], arg, svc)
  /\ UNCHANGED << conn, client >>

\* a request reaches a route handler
RouteRequest(op, body) ==
  /\ req.pc = "idle"
  /\ req' = Route_Enter(op, body, svc)
  /\ UNCHANGED << conn, client >>

\* request.json() of the handler settled
RouteBodyRead ==
  /\ req.pc = "readBody"
  /\ req' = Route_BodyRead(req, svc)
  /\ UNCHANGED << conn, client >>

\* the RPC (or the RPCs) the operation awaits settled
RpcSettled(reply) ==
  /\ AwaitingRpc(req)
  /\ reply \in RepliesTo(req)
  /\ req' = Finish(Continue(req, svc, reply))
  /\ UNCHANGED << conn, client >>

\* the caller has the result of the operation, the client the answer
Return ==
  /\ req.pc = "done"
  /\ req' = Idle
  /\ UNCHANGED << conn, client >>

\* ---- ClusterProvider steps ----
\* the provider is mounted in a browser whose localStorage holds `saved`
Mount(saved) ==
  /\ ~provider.mounted
  /\ provider' = restoreConnection_Begin([provider EXCEPT !.mounted = TRUE,
                                                          !.storage = saved])
  /\ UNCHANGED << server, page, hook, mgmt >>

\* the status query of restoreConnection is answered, or fails
StatusAnswered(ok) ==
  /\ provider.restore.pc = "awaitStatus"
  /\ provider' = IF ok THEN restoreConnection_AfterStatus(provider, GET_Status(svc))
                 ELSE restoreConnection_Catch(provider)
  /\ UNCHANGED << server, page, hook, mgmt >>

\* a component calls the provider's connect(form)
ProviderConnect(c, form) ==
  /\ provider.mounted
  /\ provider.connects[c] = NullObj
  /\ \A b \in 1..(c - 1) : provider.connects[b] # NullObj
  /\ provider' = Provider_connect_Begin(provider, c, form)
  /\ UNCHANGED << server, page, hook, mgmt >>

\* POST /api/kafka/connect of one connect() is answered, or fails
ProviderConnectAnswered(c, ok) ==
  /\ provider.connects[c] # NullObj
  /\ provider' = ConnectionModal_handleSubmit_AfterConnect(
                   IF ok THEN Provider_connect_Try(provider, c)
                   ELSE Provider_connect_Catch(provider, c, ConnectErrorMessage),
                   c)
  /\ UNCHANGED << server, page, hook, mgmt >>

\* a component calls the provider's disconnect()
ProviderDisconnect ==
  /\ provider.mounted
  /\ provider.disconnects < MaxPendingDisconnects
  /\ provider' = [provider EXCEPT !.disconnects = @ + 1, !.did = ProviderQuiet]
  /\ UNCHANGED << server, page, hook, mgmt >>

\* DELETE /api/kafka/connect of one disconnect() is answered, or fails
ProviderDisconnectAnswered(ok) ==
  /\ provider.disconnects > 0
  /\ provider' = IF ok THEN Provider_disconnect_Try(provider)
                 ELSE Provider_disconnect_Catch(provider)
  /\ UNCHANGED << server, page, hook, mgmt >>

\* the error is dismissed
ProviderClearError ==
  /\ provider.connectionError # NoString
  /\ provider' = Provider_clearError(provider)
  /\ UNCHANGED << server, page, hook, mgmt >>

\* ---- ConnectionModal steps ----
\* the page shows the modal
OpenConnectionModal ==
  /\ provider.mounted
  /\ ~provider.modal.isOpen
  /\ provider.modal.call = Null
  /\ provider' = [provider EXCEPT !.modal.isOpen = TRUE, !.did = ProviderQuiet]
  /\ UNCHANGED << server, page, hook, mgmt >>

\* the modal is closed by its close button
CloseConnectionModal ==
  /\ provider.modal.isOpen
  /\ provider' = ConnectionModal_handleClose(provider)
  /\ UNCHANGED << server, page, hook, mgmt >>

\* the form of the modal is submitted: handleFormSubmit, handleSubmit and
\* the provider's connect() up to its await
SubmitConnectionModal(c, form) ==
  /\ provider.modal.isOpen
  /\ provider.modal.call = Null
  /\ provider.connects[c] = NullObj
  /\ \A b \in 1..(c - 1) : provider.connects[b] # NullObj
  /\ provider' = [Provider_connect_Begin(provider, c, form) EXCEPT !.modal.call = c]
  /\ UNCHANGED << server, page, hook, mgmt >>

\* ---- resource hook steps ----
\* a component that uses the hook is mounted, the client not connected
UseHook(kind) ==
  /\ hook.kind = "none"
  /\ hook' = [hook EXCEPT !.kind = kind]
  /\ UNCHANGED << server, provider, page, mgmt >>

\* the shared connection value changes and the hook's effect on it runs
ConnectionChanged ==
  /\ hook.kind # "none"
  /\ hook.connected \/ hook.started < MaxFetches
  /\ hook' = connectionEffect([hook EXCEPT !.connected = ~@])
  /\ UNCHANGED << server, provider, page, mgmt >>

\* refresh() / refetch() is called by a component
ManualRefresh ==
  /\ hook.kind # "none"
  /\ hook.started < MaxFetches
  /\ hook' = fetch_Begin(hook, "manual")
  /\ UNCHANGED << server, provider, page, mgmt >>

\* the interval of the poll ticks
PollTick ==
  /\ hook.kind # "none"
  /\ hook.connected
  /\ hook.started < MaxFetches
  /\ hook' = IF pollCondition(hook) THEN fetch_Begin(hook, "poll")
             ELSE [hook EXCEPT !.did = HookQuiet]
  /\ UNCHANGED << server, provider, page, mgmt >>

\* the timeout of the retry effect fires
RetryFired ==
  /\ retryScheduled(hook)
  /\ hook.started < MaxFetches
  /\ hook' = fetch_Begin(hook, "retry")
  /\ UNCHANGED << server, provider, page, mgmt >>

\* the request of one fetch is answered, or fails
FetchSettled(f, ok) ==
  /\ f \in hook.fetches
  /\ hook' = IF ok THEN fetch_Try(hook, f)
             ELSE fetch_Catch(hook, f, FetchErrorMessage)
  /\ UNCHANGED << server, provider, page, mgmt >>

\* ---- useClusterManagement steps ----
\* an earlier page load has left a saved-clusters list in localStorage
EarlierSession(saved) ==
  /\ ~mgmt.mounted
  /\ mgmt.stored = NullObj
  /\ mgmt' = [mgmt EXCEPT !.stored = saved]
  /\ UNCHANGED << server, provider, page, hook >>

\* a page that uses the hook is mounted, the provider holding connectedCluster
ManagementMount(connectedCluster) ==
  /\ ~mgmt.mounted
  /\ mgmt' = useClusterManagement_Mount(mgmt, connectedCluster)
  /\ UNCHANGED << server, provider, page, hook >>

\* the provider's cluster changes and the sync effect runs
ConnectedClusterChanged(connectedCluster) ==
  /\ mgmt.mounted
  /\ connectedCluster # mgmt.connectedCluster
  /\ mgmt' = LET m == [mgmt EXCEPT !.connectedCluster = connectedCluster,
                                   !.did = ManagementDid("sync", NullObj)]
             IN syncEffect(m, m.clusters)
  /\ UNCHANGED << server, provider, page, hook >>

AddCluster(config) ==
  /\ mgmt.mounted
  /\ mgmt' = addCluster(mgmt, config)
  /\ UNCHANGED << server, provider, page, hook >>

RemoveCluster(entry) ==
  /\ mgmt.mounted
  /\ entry \in mgmt.clusters
  /\ mgmt' = removeCluster(mgmt, entry)
  /\ UNCHANGED << server, provider, page, hook >>

\* ---- TopicsPage steps ----
\* the Delete button of a listed topic that is not being deleted
DeleteTopicClicked(topicName) ==
  /\ topicName \notin page.deletes
  /\ page' = deleteTopicHook_Begin(page, topicName)
  /\ UNCHANGED << server, provider, hook, mgmt >>

\* DELETE /api/kafka/topics of one delete is answered, or fails
DeleteTopicAnswered(topicName, ok) ==
  /\ topicName \in page.deletes
  /\ page' = IF ok THEN deleteTopicHook_Try(page, topicName)
             ELSE deleteTopicHook_Catch(page, topicName, DeleteErrorMessage)
  /\ UNCHANGED << server, provider, hook, mgmt >>

\* onCreateTopic of the list: setIsCreateModalOpen(true)
OpenCreateModal ==
  /\ ~page.isCreateModalOpen
  /\ page' = [page EXCEPT !.isCreateModalOpen = TRUE, !.did = PageQuiet]
  /\ UNCHANGED << server, provider, hook, mgmt >>

\* handleClose of the modal: reset() and onClose() unless submitting
CloseCreateModal ==
  /\ page.isCreateModalOpen
  /\ ~page.isSubmitting
  /\ page' = [page EXCEPT !.isCreateModalOpen = FALSE, !.did = PageQuiet]
  /\ UNCHANGED << server, provider, hook, mgmt >>

\* the form of the open modal is submitted
SubmitCreateModal ==
  /\ page.isCreateModalOpen
  /\ ~page.isSubmitting
  /\ page' = handleFormSubmit_Begin(page)
  /\ UNCHANGED << server, provider, hook, mgmt >>

\* POST /api/kafka/topics of the submission is answered, or fails
CreateTopicAnswered(ok) ==
  /\ page.submitPc = "awaitCreate"
  /\ page' = IF ok THEN createTopicHook_Try(page)
             ELSE createTopicHook_Catch(page, CreateErrorMessage)
  /\ UNCHANGED << server, provider, hook, mgmt >>

\* a refetch awaited by the submission settles (fetchTopics never rejects)
RefetchSettled ==
  /\ page.submitPc \in {"awaitRefetch", "awaitPageRefetch"}
  /\ page' = IF page.submitPc = "awaitRefetch"
             THEN createTopicAndRefresh_AfterRefetch(page)
             ELSE handleCreateTopic_AfterRefetch(page)
  /\ UNCHANGED << server, provider, hook, mgmt >>

\* a step of the connection manager, with at most `calls` connect() calls
ConnectionStep(calls) ==
  \/ \E h \in 1..calls, input \in BootstrapInputs : Connect(h, input)
  \/ \E h \in HandleIds : ConnectResolved(h)
  \/ \E h \in HandleIds : ConnectFailed(h)
  \/ \E h \in HandleIds, closeOk \in BOOLEAN : ConnectCleanedUp(h, closeOk)
  \/ Disconnect
  \/ \E closeOk \in BOOLEAN : DisconnectSettled(closeOk)

\* a step of a request
RequestStep ==
  \/ \E op \in Operations : \E arg \in DirectArgs(op) : CallOperation(op, arg)
  \/ \E op \in RouteOperations \ BodyOperations : RouteRequest(op, NullObj)
  \/ \E op \in BodyOperations : \E body \in Bodies(op) : RouteRequest(op, body)
  \/ RouteBodyRead
  \/ \E reply \in Replies : RpcSettled(reply)
  \/ Return

\* the connection manager alone: connect() and disconnect() calls of callers
ConnectionNext == ConnectionStep(MaxHandles)
ConnectionSpec == Init /\ [][ConnectionNext]_vars

\* the connection manager of a server started with KAFKA_BOOTSTRAP_SERVERS
\* set or not set
StartupNext ==
  \/ \E env \in BootstrapInputs : Initialize(env)
  \/ ConnectionStep(MaxHandles)
StartupSpec == Init /\ [][StartupNext]_vars

\* the provider of one browser tab, beside a server whose connection manager
\* serves one connect() call and the disconnect() calls of its callers
ProviderStep ==
  \/ \E saved \in SavedItems : Mount(saved)
  \/ \E ok \in BOOLEAN : StatusAnswered(ok)
  \/ \E c \in ConnectSlots, form \in ConnectionForms : ProviderConnect(c, form)
  \/ \E c \in ConnectSlots, ok \in BOOLEAN : ProviderConnectAnswered(c, ok)
  \/ ProviderDisconnect
  \/ \E ok \in BOOLEAN : ProviderDisconnectAnswered(ok)
  \/ ProviderClearError
ProviderNext == ProviderStep \/ ConnectionStep(1)
ProviderSpec == Init /\ [][ProviderNext]_vars

\* the provider of one browser tab with its connection modal
ConnectionModalNext ==
  \/ ProviderStep
  \/ OpenConnectionModal
  \/ CloseConnectionModal
  \/ \E c \in ConnectSlots, form \in ConnectionForms : SubmitConnectionModal(c, form)
ConnectionModalSpec == Init /\ [][ConnectionModalNext]_vars

\* one resource hook of one browser tab
HookNext ==
  \/ \E kind \in HookKinds : UseHook(kind)
  \/ ConnectionChanged
  \/ ManualRefresh
  \/ PollTick
  \/ RetryFired
  \/ \E f \in hook.fetches, ok \in BOOLEAN : FetchSettled(f, ok)
HookSpec == Init /\ [][HookNext]_vars

\* the saved-clusters list of one browser
ManagementNext ==
  \/ \E saved \in SavedLists : EarlierSession(saved)
  \/ \E f \in ConnectionForms : ManagementMount(NewCluster(f))
  \/ ManagementMount(NullObj)
  \/ \E f \in ConnectionForms : ConnectedClusterChanged(NewCluster(f))
  \/ ConnectedClusterChanged(NullObj)
  \/ \E f \in ConnectionForms : AddCluster(f)
  \/ \E entry \in mgmt.clusters : RemoveCluster(entry)
ManagementSpec == Init /\ [][ManagementNext]_vars

\* the topics page of one browser tab
TopicsPageNext ==
  \/ \E topicName \in ListedTopics : DeleteTopicClicked(topicName)
  \/ \E topicName \in ListedTopics, ok \in BOOLEAN : DeleteTopicAnswered(topicName, ok)
  \/ OpenCreateModal
  \/ CloseCreateModal
  \/ SubmitCreateModal
  \/ \E ok \in BOOLEAN : CreateTopicAnswered(ok)
  \/ RefetchSettled
TopicsPageSpec == Init /\ [][TopicsPageNext]_vars

\* requests served while callers connect again and disconnect
ReconnectNext == ConnectionStep(MaxHandles) \/ RequestStep
ReconnectSpec == Init /\ [][ReconnectNext]_vars

\* requests served while callers connect and disconnect
Next == ConnectionStep(MaxConnects) \/ RequestStep
Spec == Init /\ [][Next]_vars

\* ------------------------------------------------------------------------
\* Connection manager: properties
\* ------------------------------------------------------------------------
Disconnected(s) == ~isConnectionActive(s) /\ getConnectionInfo(s) = NullObj

\* C1: in every reachable state at most one admin handle that the service
\* connected is still open (admin.disconnect() not yet called on it).
C1_AtMostOneOpenHandle == Cardinality(OpenHandles) <= 1

\* C2: when a disconnect() completes, isConnectionActive() is false and
\* getConnectionInfo() is null, and both stay so in every later step until
\* connect() is called again, also when a connect() that was in flight at the
\* disconnect() settles afterwards.
C2_DisconnectedAfterDisconnect ==
  /\ [](last.op = "disconnect" => Disconnected(svc))
  /\ [][(Disconnected(svc) /\ Created' = Created) => Disconnected(svc')]_vars

\* a connect() that was in flight when disconnect() completed has resolved
C2_Witness ==
  /\ svc.isConnected /\ svc.kafka = Null
  /\ last = Completed("connect", "resolved", "none")

\* C4: when connect() rejects, no handle the service connected is left open
\* and isConnectionActive() is false.
C4_RejectLeavesNoHandleOpen ==
  (last.op = "connect" /\ last.outcome = "rejected") =>
    (OpenHandles = {} /\ ~isConnectionActive(svc))

\* C5: every disconnect() resolves, and when it has completed admin, kafka
\* and connectionConfig are null and isConnected is false, whether it found
\* no admin, or its admin.disconnect() resolved or rejected.
C5_DisconnectAlwaysClears ==
  last.op = "disconnect" => (last.outcome = "resolved" /\ svc = NewService)

\* a disconnect() whose admin.disconnect() rejected has completed
C5_Witness == last = Completed("disconnect", "resolved", "failed")

\* ------------------------------------------------------------------------
\* Operations and route handlers: properties
\* ------------------------------------------------------------------------
\* the createTopics RPCs the request has issued
CreateRpcs(r) == SelectSeq(r.rpcs, LAMBDA c : c.rpc = "createTopics")

\* C3: an operation called while isConnectionActive() is false rejects with
\* 'Not connected to Kafka cluster' and issues no RPC, whatever the state of
\* the connection manager at the call.
C3_InactiveCallRejects ==
  (req.called /\ ~req.callActive) =>
    /\ req.pc = "done"
    /\ req.result = [outcome |-> "rejected", error |-> NotConnectedError, data |-> NullObj]
    /\ req.rpcs = << >>

\* an operation was called after a connect() in flight at a disconnect()
\* had resolved: isConnected is true, and no connection is held
C3_Witness ==
  /\ req.called /\ ~req.callActive /\ req.op = "updateTopicConfig"
  /\ svc.isConnected /\ svc.admin = Null

\* a createTopic request that carries a name: a direct call, or a POST that
\* passed the connection guard with a body that is JSON
CreateWithName(r) ==
  /\ r.op = "createTopic" /\ r.pc = "done"
  /\ r.called \/ (r.guardActive /\ r.body.json)

\* the arguments createTopic is or would be called with
Given(r) == IF r.called THEN r.arg ELSE ServiceArgs("createTopic", r.body)

\* the request failed with a validation error about the name: createTopic
\* rejected with one of its messages on the name, or POST answered 400 with
\* a details entry for the field name
NameValidationError(r) ==
  \/ /\ r.called /\ r.result.outcome = "rejected"
     /\ \E m \in NameMessages : r.result.error = ErrorPrefix("createTopic") \o m
  \/ /\ r.via = "route" /\ ~r.called /\ r.response.status = 400
     /\ \E i \in 1..Len(r.response.details) : r.response.details[i].field = "name"

\* C6 as stated: on an active connection whose RPCs all succeed, a valid
\* name gives exactly one createTopics RPC with the given arguments, an
\* invalid one no RPC and a validation error on the name.
C6_ValidNameGivesOneCreateRpc ==
  (/\ CreateWithName(req) /\ (req.called => req.callActive)
   /\ req.result.error # ErrorPrefix("createTopic") \o RpcError) =>
    IF ValidName(Given(req).name)
    THEN /\ Len(CreateRpcs(req)) = 1
         /\ CreateRpcs(req)[1].args = CreateTopicsArgs(Given(req))
    ELSE req.rpcs = << >> /\ NameValidationError(req)

\* C6 amended: a createTopic request issues at most one createTopics RPC; it
\* issues one only for a valid name, after listTopics answered without the
\* name and describeCluster answered with at least replicationFactor
\* brokers, and the RPC carries the given arguments; a request that resolves
\* has issued exactly one.  For an invalid name no RPC of any kind is issued,
\* and the request fails with a validation error about the name when the
\* connection was active, and with the not-connected error otherwise.
C6_CreateRpcOnlyAfterChecks ==
  CreateWithName(req) =>
    LET creates == CreateRpcs(req)
        given == Given(req)
    IN /\ Len(creates) <= 1
       /\ \A i \in 1..Len(creates) : creates[i].args = CreateTopicsArgs(given)
       /\ Len(creates) = 1 =>
            /\ ValidName(given.name)
            /\ req.locals.listed /\ ~req.locals.exists
            /\ req.locals.described /\ given.replicationFactor <= req.locals.brokers
       /\ req.result.outcome = "resolved" => Len(creates) = 1
       /\ ~ValidName(given.name) =>
            /\ req.rpcs = << >>
            /\ IF req.via = "route" \/ req.callActive
               THEN NameValidationError(req)
               ELSE req.result.error = NotConnectedError

\* a createTopic call with the longest valid name resolved
C6_Witness ==
  /\ CreateWithName(req) /\ req.result.outcome = "resolved"
  /\ req.arg.name = Name_longest /\ Len(CreateRpcs(req)) = 1

\* C7: once describeCluster has answered with fewer brokers than the
\* replicationFactor, the createTopic call is rejected and has issued no
\* createTopics RPC.
C7_ReplicationAboveBrokersRejected ==
  (/\ req.op = "createTopic" /\ req.locals # NullObj /\ req.locals.described
   /\ req.arg.replicationFactor > req.locals.brokers) =>
    /\ req.pc = "done" /\ req.result.outcome = "rejected"
    /\ CreateRpcs(req) = << >>

\* a POST with 1000 partitions and replicationFactor 2 met a single broker
C7_Witness ==
  /\ req.op = "createTopic" /\ req.via = "route" /\ req.locals # NullObj
  /\ req.locals.described /\ req.locals.brokers = 1
  /\ req.arg.replicationFactor = 2 /\ req.arg.partitions = MaxPartitions

\* C8: a request that reaches a route handler while isConnectionActive() is
\* false is answered 401 with success false and the not-connected error; the
\* handler calls no operation of the service, whatever the body is.
C8_GuardAnswers401 ==
  (req.via = "route" /\ ~req.guardActive) =>
    /\ req.pc = "done" /\ ~req.called /\ req.rpcs = << >>
    /\ req.response.status = 401 /\ ~req.response.success
    /\ req.response.error = NotConnectedError

\* a POST whose body is no JSON was answered by the guard
C8_Witness ==
  /\ req.via = "route" /\ ~req.guardActive /\ req.op = "createTopic"
  /\ req.body = NoBody /\ req.response.status = 401

\* C9 as stated: GET /kafka/cluster without a connection answers 401 with
\* the fallback overview.
C9_GuardAnswersFallbackOverview ==
  (req.via = "route" /\ req.op = "getClusterOverview" /\ ~req.guardActive) =>
    (req.response.status = 401 /\ req.response.data = FallbackOverview)

\* C9 amended: GET /kafka/cluster without a connection answers 401 with
\* success false, the not-connected error and no data; the fallback overview
\* (all counts 0, status 'unknown') is the data of the 503 answer, given when
\* getClusterOverview rejects, and of no other answer.
C9_FallbackOnlyWith503 ==
  (req.via = "route" /\ req.op = "getClusterOverview" /\ req.pc = "done") =>
    /\ ~req.guardActive =>
         req.response = Response(401, FALSE, NotConnectedError,
                                 "Please establish a connection first", NullObj, NullObj)
    /\ req.response.data = FallbackOverview <=> req.response.status = 503

\* GET /kafka/cluster was answered by the guard
C9_Witness ==
  /\ req.via = "route" /\ req.op = "getClusterOverview" /\ req.pc = "done"
  /\ ~req.guardActive /\ req.response.status = 401

\* C10: when deleteTopic rejects in DELETE /kafka/topics, the answer is 422
\* with success false and details.topicName the requested name.
C10_DeleteFailureAnswers422 ==
  (/\ req.via = "route" /\ req.op = "deleteTopic" /\ req.called
   /\ req.result.outcome = "rejected") =>
    /\ req.pc = "done"
    /\ req.response.status = 422 /\ ~req.response.success
    /\ req.response.error = req.result.error
    /\ req.response.details.topicName = req.body.topicName

\* DELETE of a topic that listTopics does not list
C10_Witness ==
  /\ req.via = "route" /\ req.op = "deleteTopic" /\ req.called
  /\ req.result.error = "Failed to delete topic: Topic '${topicName}' does not exist"
  /\ req.response.status = 422

\* ------------------------------------------------------------------------
\* Aggregation operations: properties
\* ------------------------------------------------------------------------
\* the request is a getClusterOverview call that returned an overview
OverviewReturned(r) ==
  r.op = "getClusterOverview" /\ r.pc = "done" /\ r.result.outcome = "resolved"

\* C11: the status of every overview returned by getClusterOverview is
\* 'healthy' if and only if brokersOnline = brokersTotal and brokersTotal > 0.
C11_HealthyIffAllOnlineAndSome ==
  OverviewReturned(req) =>
    LET o == req.result.data
    IN o.status = "healthy" <=> (o.brokersOnline = o.brokersTotal /\ o.brokersTotal > 0)

\* the overview was computed from a sample whose metadata was fetched
SampleCounted(r) ==
  OverviewReturned(r) /\ r.locals # NullObj /\ r.locals.sampleOk

SubFetchFailed(r) ==
  /\ r.pc = "done" /\ r.locals # NullObj
  /\ \/ r.op = "getClusterOverview" /\ ~r.locals.sampleOk
     \/ r.op = "getBrokers" /\ ~r.locals.countsOk
     \/ r.op \in {"getTopics", "getTopicDetails"} /\ ~r.locals.configsOk

\* C13: when fetchTopicMetadata fails in getClusterOverview, listTopics or
\* fetchTopicMetadata in getBrokers, or describeConfigs in getTopics or
\* getTopicDetails, the operation resolves: the overview with
\* partitionsCount = 3 * topicsCount, every broker of describeCluster with
\* topicCount and partitionCount 0, the topics with an empty config.
C13_SubFetchFailureDegrades ==
  SubFetchFailed(req) =>
    /\ req.result.outcome = "resolved"
    /\ req.op = "getClusterOverview" =>
         /\ req.result.data.partitionsCount = 3 * req.result.data.topicsCount
         /\ req.result.data.brokersTotal = req.locals.brokers
    /\ req.op = "getBrokers" =>
         /\ req.result.data.brokers = req.locals.brokers
         /\ req.result.data.topicCount = 0 /\ req.result.data.partitionCount = 0
    /\ req.op \in {"getTopics", "getTopicDetails"} =>
         /\ req.result.data.config = ConfigEmpty
         /\ req.result.data.count >= 1

\* the sampling of an overview of more than 50 topics failed
C13_Witness ==
  /\ SubFetchFailed(req) /\ req.op = "getClusterOverview"
  /\ req.result.data.topicsCount > OverviewSampleSize
  /\ req.result.data.partitionsCount = 3 * req.result.data.topicsCount

\* the request to a route handler failed because no connection was active:
\* at the handler's guard, or at the guard of the operation it called
FailedNotConnected(r) ==
  /\ r.via = "route" /\ r.pc = "done"
  /\ \/ ~r.guardActive
     \/ r.called /\ r.result.outcome = "rejected" /\ r.result.error = NotConnectedError

\* C20: a request that fails because no connection is active is answered
\* 401, whether the handler's guard or the operation's guard detected it.
C20_NotConnectedAnswers401 ==
  FailedNotConnected(req) => req.response.status = 401

\* ------------------------------------------------------------------------
\* Startup: properties
\* ------------------------------------------------------------------------
\* the startup attempt of initialize() has failed and initialize() returned
StartupFailed ==
  /\ handles[1].by = "initialize" /\ handles[1].connect = "failed"
  /\ connectPc[1] = "done"

\* connect() was called, every connect() call has resolved, and disconnect()
\* was never called by a caller
ManualConnected ==
  /\ \E h \in HandleIds : handles[h].by = "connect"
  /\ \A h \in HandleIds :
       handles[h].by = "connect" =>
         connectPc[h] = "done" /\ handles[h].connect = "connected"
  /\ \A h \in HandleIds : handles[h].closer # "disconnect"
  /\ discPending = 0 /\ last.op # "disconnect"

\* C19: initialize() resolves, and once the startup attempt has failed a
\* manual connect() that resolved has left isConnectionActive() true.
C19_StartupFailureKeepsManualConnection ==
  /\ last.op = "initialize" => last.outcome = "resolved"
  /\ (StartupFailed /\ ManualConnected) => isConnectionActive(svc)

\* ------------------------------------------------------------------------
\* ClusterProvider: properties
\* ------------------------------------------------------------------------
\* a restoreConnection that found a persisted record has completed, the
\* status query having said connected / said not connected or failed
RestoreKept == provider.did.op = "restore" /\ provider.did.outcome = "connected"
RestoreDropped ==
  provider.did.op = "restore" /\ provider.did.outcome \in {"notConnected", "failed"}

\* C14: when the restore of a persisted record completes after the status
\* query said connected, the cluster is the persisted record with
\* bootstrapServers replaced by the server's broker string; when the query
\* said not connected or failed, the restore leaves the cluster as it found it
\* (null unless a connect() completed meanwhile) and the persisted record is
\* removed; and a null cluster becomes non-null only in a step that completes
\* such a confirmed restore or a connect().
C14_RestoreOnlyWhenServerConnected ==
  /\ [](RestoreKept =>
          /\ provider.did.status.connected
          /\ provider.cluster =
               [provider.did.subject EXCEPT
                  !.bootstrapServers = provider.did.status.connection.brokers])
  /\ [](RestoreDropped =>
          /\ provider.cluster = provider.did.before
          /\ provider.storage = NullObj)
  /\ [][(provider.cluster = NullObj /\ provider'.cluster # NullObj) =>
          \/ (provider'.did.op = "restore" /\ provider'.did.outcome = "connected")
          \/ (provider'.did.op = "connect" /\ provider'.did.outcome = "resolved")]_vars

\* a record typed with blanks was restored with the server's broker string
C14_Witness ==
  /\ RestoreKept
  /\ provider.did.before = NullObj
  /\ provider.cluster.bootstrapServers # provider.did.subject.bootstrapServers

\* C15: when a provider connect(form) completes, isConnecting is false; after
\* a successful server call the cluster is the connected cluster of the form,
\* connectionError is null and the cluster is the persisted item; after a
\* failed one the cluster is null and connectionError is the message.
C15_ConnectCompletionState ==
  provider.did.op = "connect" =>
    /\ ~provider.isConnecting
    /\ IF provider.did.outcome = "resolved"
       THEN /\ provider.cluster = NewCluster(provider.did.subject)
            /\ provider.connectionError = NoString
            /\ provider.storage = Stringify(provider.cluster)
       ELSE /\ provider.cluster = NullObj
            /\ provider.connectionError = Str(ConnectErrorMessage)

\* C16: when a provider disconnect() completes, the cluster is null,
\* connectionError is null and no item is persisted, whether the server call
\* succeeded or failed.
C16_DisconnectClearsClient ==
  provider.did.op = "disconnect" =>
    /\ provider.cluster = NullObj
    /\ provider.connectionError = NoString
    /\ provider.storage = NullObj

\* a disconnect() whose server call failed completed on a connected provider
C16_Witness ==
  /\ provider.did.op = "disconnect"
  /\ provider.did.outcome = "failed"
  /\ provider.did.before # NullObj

\* ------------------------------------------------------------------------
\* TopicsPage: properties
\* ------------------------------------------------------------------------
\* C17: isDeletingTopic is null when no delete is in flight, and names every
\* topic whose delete is in flight.
C17_DeletingIndicationPerTopic ==
  /\ page.deletes = {} => page.isDeletingTopic = NoString
  /\ \A topicName \in page.deletes : page.isDeletingTopic = Str(topicName)

\* C18: when a submission of the create-topic modal completes and the topic
\* was not created, onClose was not called and the modal is still open.
C18_FailedCreateKeepsModalOpen ==
  (page.did.op = "submit" /\ ~page.did.created) =>
    (~page.did.onClose /\ page.isCreateModalOpen)

\* ------------------------------------------------------------------------
\* KafkaService: operations against connect() and disconnect()
\* ------------------------------------------------------------------------
\* C21: an operation that continues from an RPC while this.admin is null, a
\* disconnect() having completed while it was suspended, does not resolve.
C21_CutOperationRejects ==
  [][(AwaitingRpc(req) /\ svc.admin = Null /\ req' # req)
       => req'.result.outcome # "resolved"]_vars

\* C25: isConnectionActive() is true only if admin.connect() has resolved on
\* the admin handle that the service holds.
C25_ActiveOnlyOnVerifiedHandle ==
  isConnectionActive(svc) =>
    (svc.admin # Null /\ handles[svc.admin].connect = "connected")

\* C26: the RPCs issued during one call of an operation are all issued on
\* the same admin handle.
C26_OneHandlePerCall ==
  \A i, j \in 1..Len(req.rpcs) : req.rpcs[i].h = req.rpcs[j].h

\* ------------------------------------------------------------------------
\* ClusterProvider and ConnectionModal: properties
\* ------------------------------------------------------------------------
\* no connect(), disconnect() or restore of the provider is in flight
ProviderAtRest ==
  /\ provider.mounted
  /\ provider.restore.pc # "awaitStatus"
  /\ \A c \in ConnectSlots : provider.connects[c] = NullObj
  /\ provider.disconnects = 0

\* C27: whenever the provider is at rest, a 'kafka-cluster' item is persisted
\* if and only if the cluster is non-null.
C27_PersistedIffCluster ==
  ProviderAtRest => ((provider.storage # NullObj) <=> (provider.cluster # NullObj))

\* C30: in the step in which the connect() of a submit of the connection
\* modal completes with a failure, the modal is not closed: it is open
\* afterwards if it was open, and connectionError is set.
C30_FailedConnectKeepsModalOpen ==
  [][(/\ provider.modal.call # Null
      /\ provider'.modal.call = Null
      /\ provider'.did.op = "connect"
      /\ provider'.did.outcome = "failed")
       => (/\ provider'.modal.isOpen = provider.modal.isOpen
           /\ provider'.connectionError # NoString)]_vars

\* ------------------------------------------------------------------------
\* Resource hooks: properties
\* ------------------------------------------------------------------------
\* C22: when the fetch started by the retry timer has failed, no further
\* retry is scheduled.
C22_SingleRetry ==
  (hook.did.op = "settle" /\ hook.did.origin = "retry" /\ ~hook.did.ok)
    => ~retryScheduled(hook)

\* C23: a tick of the poll starts no fetch while a fetch of the hook is in
\* flight or the hook holds an error.
C23_PollSkipsWhenBusyOrFailed ==
  (hook.did.op = "start" /\ hook.did.origin = "poll")
    => (~hook.did.inFlight /\ ~hook.did.errorHeld)

\* C24: while the connection value is disconnected the hook's data is cleared.
C24_ClearedWhileDisconnected ==
  (hook.kind # "none" /\ ~hook.connected) => hook.data = 0

\* C28: the response of an earlier-started fetch never replaces the response
\* of a later-started one.
C28_LaterFetchWins ==
  [][(hook.data # 0 /\ hook'.data # 0) => hook'.data >= hook.data]_vars

\* ------------------------------------------------------------------------
\* useClusterManagement: properties
\* ------------------------------------------------------------------------
\* C29: an entry leaves the persisted saved-clusters list only in a step
\* that is removeCluster of that entry.
C29_OnlyRemoveClusterRemoves ==
  [][\A e \in loadClusters(mgmt.stored) \ loadClusters(mgmt'.stored) :
       mgmt'.did = ManagementDid("removeCluster", e)]_vars

====
